---------------------------- MODULE Spec2Model ----------------------------
(***************************************************************************)
(* Conversation state machine of the Banquea WhatsApp bot                  *)
(* (src/app/routes.py).  Python strings the code inspects (message body,   *)
(* button/list id, list title) are sequences of one-character strings, so  *)
(* that lower(), strip(), int() and split() are computed, not assumed.     *)
(***************************************************************************)
EXTENDS Integers, Sequences, FiniteSets, TLC

VARIABLES
    user_states,   \* routes.py:33   phone -> [state, temp_data], in memory
    users,         \* the User table: phone -> user row
    questions,     \* ids of the questions held by the in-memory question store
    tasks,         \* phone -> number of pending send_sample_question tasks
    last,          \* the last request handled: input, state before, messages, response
    handlers       \* the webhook requests in flight when requests overlap

vars == <<user_states, users, questions, tasks, last, handlers>>

---------------------------------------------------------------------------
(* Bounds of the model *)

\* pending background tasks per user
MaxTasks == 1

\* the phone numbers that write to the bot
Phones == {"51999"}

\* ids of the questions the CSV files hold
QuestionIds == {1, 2}

---------------------------------------------------------------------------
(* Python values *)

\* an empty dict ({}), and a dict with one key
EmptyDict == <<>>

\* the empty str
EmptyStr == <<>>

---------------------------------------------------------------------------
(* str methods used by the handler *)

UpperChars == <<"A","B","C","D","E","F","G","H","I","J","K","L","M","N","O","P","Q","R","S","T","U","V","W","X","Y","Z","Á","É","Í","Ó","Ú","Ñ">>
LowerChars == <<"a","b","c","d","e","f","g","h","i","j","k","l","m","n","o","p","q","r","s","t","u","v","w","x","y","z","á","é","í","ó","ú","ñ">>

Digits == <<"0","1","2","3","4","5","6","7","8","9">>

Whitespace == {" ", "\t", "\n"}

IsDigit(ch) == \E i \in 1..Len(Digits) : Digits[i] = ch

DigitValue(ch) == (CHOOSE i \in 1..Len(Digits) : Digits[i] = ch) - 1

LowerChar(ch) ==
    IF \E i \in 1..Len(UpperChars) : UpperChars[i] = ch
    THEN LowerChars[CHOOSE i \in 1..Len(UpperChars) : UpperChars[i] = ch]
    ELSE ch

\* a lower() that leaves the text as typed
lower_AsTyped(s) == s

\* str.lower()
lower(s) == [i \in 1..Len(s) |-> LowerChar(s[i])]

\* str.strip(): drops leading and trailing whitespace
strip(s) ==
    LET keep == {i \in 1..Len(s) : s[i] \notin Whitespace}
    IN  IF keep = {} THEN EmptyStr
        ELSE LET lo == CHOOSE i \in keep : \A j \in keep : i <= j
                 hi == CHOOSE i \in keep : \A j \in keep : j <= i
             IN  SubSeq(s, lo, hi)

\* the digits of an int literal: digits, single underscores only between digits
IsDigitString(s) ==
    /\ Len(s) > 0
    /\ \A i \in 1..Len(s) : IsDigit(s[i]) \/ s[i] = "_"
    /\ IsDigit(s[1]) /\ IsDigit(s[Len(s)])
    /\ \A i \in 1..(Len(s) - 1) : ~(s[i] = "_" /\ s[i + 1] = "_")

RECURSIVE DigitsValue(_)
DigitsValue(s) ==
    IF Len(s) = 0 THEN 0
    ELSE IF s[Len(s)] = "_" THEN DigitsValue(SubSeq(s, 1, Len(s) - 1))
    ELSE 10 * DigitsValue(SubSeq(s, 1, Len(s) - 1)) + DigitValue(s[Len(s)])

\* whether int(s) returns (TRUE) or raises ValueError (FALSE)
IsInt(s) ==
    LET t == strip(s)
    IN  /\ Len(t) > 0
        /\ IF t[1] \in {"+", "-"} THEN IsDigitString(SubSeq(t, 2, Len(t)))
                                   ELSE IsDigitString(t)

\* int(s), for IsInt(s)
int(s) ==
    LET t == strip(s)
    IN  IF t[1] = "-" THEN 0 - DigitsValue(SubSeq(t, 2, Len(t)))
        ELSE IF t[1] = "+" THEN DigitsValue(SubSeq(t, 2, Len(t)))
        ELSE DigitsValue(t)

\* a digits test that accepts a single digit only
IsAllDigits_OneDigit(s) == Len(s) = 1 /\ IsDigit(s[1])

\* re.match(r'^\d+$', s): one or more digits, an optional final newline
IsAllDigits(s) ==
    LET t == IF Len(s) > 0 /\ s[Len(s)] = "\n" THEN SubSeq(s, 1, Len(s) - 1) ELSE s
    IN  Len(t) > 0 /\ \A i \in 1..Len(t) : IsDigit(t[i])

---------------------------------------------------------------------------
(* Literals of routes.py *)

\* routes.py:24-31
STATES == [INITIAL |-> 0, AWAITING_CONFIRMATION |-> 1, AWAITING_DAY |-> 2,
           AWAITING_HOUR |-> 3, SUBSCRIBED |-> 4, AWAITING_QUESTION_RESPONSE |-> 5]

\* the confirmation words without the accented spelling
YesTexts_Unaccented == {<<"s","i">>, <<"y","e","s">>, <<"y">>}

\* routes.py:313
YesTexts == {<<"s","i">>, <<"s","í">>, <<"y","e","s">>, <<"y">>}

\* routes.py:324
NoTexts == {<<"n","o">>, <<"n">>}

\* the stop commands without the English long form
StopTexts_Short == {<<"d","e","t","e","n","e","r">>, <<"s","t","o","p">>}

\* routes.py:415
StopTexts == {<<"d","e","t","e","n","e","r">>, <<"s","t","o","p">>,
              <<"u","n","s","u","b","s","c","r","i","b","e">>}

\* the start commands without the Spanish one
StartTexts_Short == {<<"s","t","a","r","t">>, <<"s","u","b","s","c","r","i","b","e">>}

\* routes.py:419
StartTexts == {<<"i","n","i","c","i","a","r">>, <<"s","t","a","r","t">>,
               <<"s","u","b","s","c","r","i","b","e">>}

\* the day names with the accented spellings only
day_map_AccentedOnly ==
    (<<"l","u","n","e","s">> :> 0) @@ (<<"m","a","r","t","e","s">> :> 1) @@
    (<<"m","i","é","r","c","o","l","e","s">> :> 2) @@
    (<<"j","u","e","v","e","s">> :> 3) @@ (<<"v","i","e","r","n","e","s">> :> 4) @@
    (<<"s","á","b","a","d","o">> :> 5) @@ (<<"d","o","m","i","n","g","o">> :> 6)

\* routes.py:357-360 and 796-799
day_map ==
    (<<"l","u","n","e","s">> :> 0) @@ (<<"m","a","r","t","e","s">> :> 1) @@
    (<<"m","i","é","r","c","o","l","e","s">> :> 2) @@ (<<"m","i","e","r","c","o","l","e","s">> :> 2) @@
    (<<"j","u","e","v","e","s">> :> 3) @@ (<<"v","i","e","r","n","e","s">> :> 4) @@
    (<<"s","á","b","a","d","o">> :> 5) @@ (<<"s","a","b","a","d","o">> :> 5) @@
    (<<"d","o","m","i","n","g","o">> :> 6)

\* routes.py:276 and 397; Python's days[d] is days[d + 1] here
days == <<"lunes", "martes", "miércoles", "jueves", "viernes", "sábado", "domingo">>

\* routes.py:217, 228 and 755, 762
yes_button == <<"y","e","s","_","b","u","t","t","o","n">>
no_button == <<"n","o","_","b","u","t","t","o","n">>

\* None in an integer column (preferred_day, preferred_hour, last_question_id)
\* or for a missing dict key: a value no day, hour or question id takes
NoneInt == 0 - 1

\* day_map.get(key)
day_map_get(key) == IF key \in DOMAIN day_map THEN day_map[key] ELSE NoneInt

---------------------------------------------------------------------------
(* Outbound messages.  A message is [kind, text, args]: kind is the client  *)
(* call (send_message: "text", send_button_message: "buttons",              *)
(* send_interactive_list_message: "day_list", send_question_list_message:   *)
(* "question_list"), text names the literal of routes.py, args are the      *)
(* values formatted into it.                                                *)

Msg(kind, text, args) == [kind |-> kind, text |-> text, args |-> args]

WELCOME_BUTTONS == Msg("buttons", "welcome", <<>>)              \* routes.py:299-303
RESTART_BUTTONS == Msg("buttons", "restart", <<>>)              \* routes.py:421-425
DAY_LIST == Msg("day_list", "select", <<>>)                     \* routes.py:220-223, 316-319
DAY_LIST_RETRY == Msg("day_list", "retry", <<>>)                \* routes.py:378-381
DECLINE_BUTTON == Msg("text", "decline_button", <<>>)           \* routes.py:230
DECLINE_TEXT == Msg("text", "decline_text", <<>>)               \* routes.py:325
NOT_UNDERSTOOD == Msg("text", "not_understood", <<>>)           \* routes.py:331
DAY_RANGE_ERROR == Msg("text", "day_range", <<>>)               \* routes.py:354
HOUR_RANGE_ERROR == Msg("text", "hour_range", <<>>)             \* routes.py:409
HOUR_FORMAT_ERROR == Msg("text", "hour_format", <<>>)           \* routes.py:411
CANCELLED == Msg("text", "cancelled", <<>>)                     \* routes.py:417
COMMAND_REMINDER == Msg("text", "commands", <<>>)               \* routes.py:434-438
ANSWER_ERROR == Msg("text", "answer_error", <<>>)               \* routes.py:288-291
INVALID_DAY == Msg("text", "invalid_day", <<>>)                 \* routes.py:805-808
NO_QUESTIONS == Msg("text", "no_questions", <<>>)               \* routes.py:819-822
ASK_HOUR_NUMBER(day) == Msg("text", "ask_hour_day_number", <<day>>)      \* routes.py:346-350
ASK_HOUR_NAME(body) == Msg("text", "ask_hour_day_name", <<body>>)        \* routes.py:369-373
CONFIRMATION(day_name, hour) == Msg("text", "confirmation", <<day_name, hour>>)   \* routes.py:400-403
FEEDBACK_NEXT(feedback, day_name) == Msg("text", "feedback_next", <<feedback, day_name>>)  \* routes.py:279
FEEDBACK(feedback) == Msg("text", "feedback", <<feedback>>)     \* routes.py:431
SAMPLE_QUESTION(question) == Msg("text", "sample_question", <<question>>)   \* routes.py:493-495
QUESTION_LIST(question) == Msg("question_list", "question", <<question>>)   \* routes.py:832-837

\* response_message = ""
NoMessage == Msg("text", "", <<>>)

---------------------------------------------------------------------------
(* Return values of the webhook: the status and the keys of the dict *)

Ret(status, keys, detail) == [status |-> status, keys |-> keys, detail |-> detail]

SUCCESS == Ret("success", {"status"}, "")                                          \* routes.py:227, 446
NO_MESSAGES == Ret("success", {"status", "message"}, "No processable messages")    \* routes.py:169
INCOMPLETE == Ret("success", {"status", "message"}, "Incomplete message data")     \* routes.py:180
ANSWER_FAILED == Ret("error", {"status", "error"}, "str(e)")                       \* routes.py:292

PARSE_FAILED == Ret("error", {"status", "message"}, "str(e)")                      \* routes.py:450

\* the handler has not returned yet
NoReturn == Ret("", {}, "")

\* the HTTP response: status code and, for a bare integer body, its value
Http(code, body) == [code |-> code, body |-> body]

\* the response of a handler that returns a dict
HttpOk == Http(200, NoneInt)

---------------------------------------------------------------------------
(* Conversation state store, routes.py:73-87 *)

StateRecord(state, temp_data) == [state |-> state, temp_data |-> temp_data]

\* get_user_state: the store after the call (the entry is created when absent)
get_user_state(store, phone_number) ==
    IF phone_number \notin DOMAIN store
    THEN [q \in DOMAIN store \cup {phone_number} |->
            IF q = phone_number THEN StateRecord(STATES.INITIAL, EmptyDict) ELSE store[q]]
    ELSE store

\* a set_user_state that keeps the keys of the previous temp data
set_user_state_Merge(store, phone_number, state, temp_data) ==
    [q \in DOMAIN store \cup {phone_number} |->
        IF q = phone_number
        THEN StateRecord(state,
                [k \in DOMAIN temp_data \cup
                        (IF q \in DOMAIN store THEN DOMAIN store[q].temp_data ELSE {}) |->
                    IF k \in DOMAIN temp_data THEN temp_data[k] ELSE store[q].temp_data[k]])
        ELSE store[q]]

\* set_user_state: temp_data or {} (an omitted temp_data is passed as EmptyDict)
set_user_state(store, phone_number, state, temp_data) ==
    [q \in DOMAIN store \cup {phone_number} |->
        IF q = phone_number
        THEN StateRecord(state, IF DOMAIN temp_data = {} THEN EmptyDict ELSE temp_data)
        ELSE store[q]]

---------------------------------------------------------------------------
(* User directory (crud) and question store (utils): the collaborators of   *)
(* the handler.  A user row is keyed by its phone number.                   *)

UserRow(is_active, is_blacklisted, preferred_day, preferred_hour, last_question_id) ==
    [is_active |-> is_active, is_blacklisted |-> is_blacklisted,
     preferred_day |-> preferred_day, preferred_hour |-> preferred_hour,
     last_question_id |-> last_question_id]

\* crud.create_user: a new, active user without preferences
create_user(db, phone_number) ==
    [q \in DOMAIN db \cup {phone_number} |->
        IF q = phone_number THEN UserRow(TRUE, FALSE, NoneInt, NoneInt, NoneInt) ELSE db[q]]

\* crud.deactivate_user
deactivate_user(db, phone_number) == [db EXCEPT ![phone_number].is_active = FALSE]

\* crud.update_user_preferences
update_user_preferences(db, phone_number, day, hour) ==
    [db EXCEPT ![phone_number].preferred_day = day, ![phone_number].preferred_hour = hour]

\* the questions of the CSV files: number of options and the correct option (1-based)
QuestionBank == [q \in QuestionIds |-> [options |-> 3, correct |-> q]]

\* the grading decision: "correct", "incorrect", or "error" for an unknown
\* question or an option outside the question's range
Grade(store, question_id, option_num) ==
    IF question_id \notin store THEN "error"
    ELSE IF option_num \notin 1..QuestionBank[question_id].options THEN "error"
    ELSE IF option_num = QuestionBank[question_id].correct THEN "correct"
    ELSE "incorrect"

\* utils.process_user_response_from_list(db, user_id, question_id, option_num): the feedback
process_user_response_from_list(store, question_id, option_num) ==
    Grade(store, question_id, option_num)

\* utils.process_user_response(db, user_id, message_body): graded against the
\* user's last recorded question
process_user_response(store, user, message_body) ==
    IF user.last_question_id = NoneInt THEN "error"
    ELSE Grade(store, user.last_question_id, int(message_body))

---------------------------------------------------------------------------
(* The handler's working state: the tables as written so far, the messages  *)
(* sent so far, response_message, and the value returned (NoReturn while    *)
(* the handler is still running).  net[i] is the channel's answer to the    *)
(* i-th send of the request.                                                *)

Send(c, to, msg, net) ==
    [c EXCEPT !.sent = Append(@, [to |-> to, msg |-> msg, ok |-> net[Len(@) + 1]])]

\* the result the next send will return
SendResult(c, net) == net[Len(c.sent) + 1]

Return(c, ret) == [c EXCEPT !.ret = ret]

SetState(c, phone_number, state, temp_data) ==
    [c EXCEPT !.user_states = set_user_state(@, phone_number, state, temp_data)]

\* a default hour of noon
DefaultHour_Noon == 9 + 3

\* default hour of the list path, routes.py:812
DefaultHour == 9

\* routes.py:782-850; question is get_random_question(): an id or None
handle_day_selection(c, phone_number, day_title, net, question) ==
    LET day_value == day_map_get(lower(day_title))
    IN  IF day_value = NoneInt
        THEN [c |-> Send(c, phone_number, INVALID_DAY, net), result |-> FALSE]
        ELSE
          LET c1 == [c EXCEPT !.users = update_user_preferences(@, phone_number, day_value, DefaultHour)]
          IN  IF question = NoneInt
              THEN [c |-> Send(c1, phone_number, NO_QUESTIONS, net), result |-> FALSE]
              ELSE
                LET c2 == [c1 EXCEPT !.users[phone_number].last_question_id = question]
                    c3 == Send(c2, phone_number, QUESTION_LIST(question), net)
                IN  IF SendResult(c2, net)
                    THEN [c |-> SetState(c3, phone_number, STATES.AWAITING_QUESTION_RESPONSE, EmptyDict),
                          result |-> TRUE]
                    ELSE [c |-> c3, result |-> FALSE]

\* str.split('_')
RECURSIVE split(_)
split(s) ==
    IF \A i \in 1..Len(s) : s[i] # "_" THEN <<s>>
    ELSE LET k == CHOOSE i \in 1..Len(s) : s[i] = "_" /\ \A j \in 1..(i - 1) : s[j] # "_"
         IN  <<SubSeq(s, 1, k - 1)>> \o split(SubSeq(s, k + 1, Len(s)))

\* routes.py:259-292: a list reply while AWAITING_QUESTION_RESPONSE.  The try
\* block raises when the id has fewer than four parts, when a part is no int,
\* or when user.preferred_day is None (days[None]).
AnswerFromList(c, phone_number, option_id, net) ==
    LET parts == split(option_id)
        user == c.users[phone_number]
        raises == \/ Len(parts) < 4
                  \/ ~IsInt(parts[2])
                  \/ ~IsInt(parts[4])
                  \/ user.preferred_day = NoneInt
    IN  IF raises
        THEN Return(Send(c, phone_number, ANSWER_ERROR, net), ANSWER_FAILED)
        ELSE
          LET feedback == process_user_response_from_list(questions, int(parts[2]), int(parts[4]))
              day_name == days[user.preferred_day + 1]
              c1 == Send(c, phone_number, FEEDBACK_NEXT(feedback, day_name), net)
          IN  Return(SetState(c1, phone_number, STATES.SUBSCRIBED, EmptyDict), SUCCESS)

\* staging the number the user typed instead of the 0-based index
StageDay_OneBased(temp_data, day_value) ==
    [k \in DOMAIN temp_data \cup {"preferred_day"} |->
        IF k = "preferred_day" THEN day_value + 1 ELSE temp_data[k]]

\* temp_data["preferred_day"] = day_value
StageDay(temp_data, day_value) ==
    [k \in DOMAIN temp_data \cup {"preferred_day"} |->
        IF k = "preferred_day" THEN day_value ELSE temp_data[k]]

\* reading the default instead of the staged day
StagedDay_Default(temp_data) == 0

\* temp_data.get("preferred_day", 0)
StagedDay(temp_data) ==
    IF "preferred_day" \in DOMAIN temp_data THEN temp_data["preferred_day"] ELSE 0

\* a day check that lets 8 through
ValidDay_UpTo8(day) == 1 <= day /\ day <= 8

\* routes.py:338: 1 <= day <= 7
ValidDay(day) == 1 <= day /\ day <= 7

\* an hour check that lets 24 through
ValidHour_UpTo24(hour) == 0 <= hour /\ hour <= 24

\* routes.py:388: 0 <= hour <= 23
ValidHour(hour) == 0 <= hour /\ hour <= 23

\* routes.py:205-292: the interactive part of the handler
InteractiveBranch(c, phone_number, md, current_state, net, question) ==
    IF ~(md.message_type = "interactive" /\ DOMAIN md.interactive_data # {})
    THEN c
    ELSE
      LET reply_type == md.interactive_data.reply_type
          button_id == md.interactive_data.id
          title == md.interactive_data.title
      IN  IF reply_type = "button_reply"
          THEN IF button_id = yes_button
               THEN Return(SetState(Send(c, phone_number, DAY_LIST, net),
                                    phone_number, STATES.AWAITING_DAY, EmptyDict), SUCCESS)
               ELSE IF button_id = no_button
               THEN SetState([c EXCEPT !.response_message = DECLINE_BUTTON,
                                       !.users = deactivate_user(@, phone_number)],
                             phone_number, STATES.INITIAL, EmptyDict)
               ELSE c
          ELSE IF reply_type = "list_reply"
          THEN IF current_state = STATES.AWAITING_DAY
               THEN LET r == handle_day_selection(c, phone_number, title, net, question)
                    IN  IF r.result THEN Return(r.c, SUCCESS) ELSE r.c
               ELSE IF current_state = STATES.AWAITING_QUESTION_RESPONSE
               THEN AnswerFromList(c, phone_number, button_id, net)
               ELSE c
          ELSE c

\* routes.py:294-438: the branch of the state read at the start of the request;
\* user_state is the record read then
TextBranch(c, phone_number, md, current_state, user_state, net) ==
    LET message_body == md.body
    IN
    IF current_state = STATES.INITIAL
    THEN Return(SetState(Send(c, phone_number, WELCOME_BUTTONS, net),
                         phone_number, STATES.AWAITING_CONFIRMATION, EmptyDict), SUCCESS)
    ELSE IF current_state = STATES.AWAITING_CONFIRMATION
    THEN IF lower(message_body) \in YesTexts
         THEN Return(SetState(Send(c, phone_number, DAY_LIST, net),
                              phone_number, STATES.AWAITING_DAY, EmptyDict), SUCCESS)
         ELSE IF lower(message_body) \in NoTexts
         THEN SetState([c EXCEPT !.response_message = DECLINE_TEXT,
                                 !.users = deactivate_user(@, phone_number)],
                       phone_number, STATES.INITIAL, EmptyDict)
         ELSE [c EXCEPT !.response_message = NOT_UNDERSTOOD]
    ELSE IF current_state = STATES.AWAITING_DAY
    THEN IF IsInt(message_body)
         THEN LET day == int(message_body)
              IN  IF ValidDay(day)
                  THEN SetState([c EXCEPT !.response_message = ASK_HOUR_NUMBER(day)],
                                phone_number, STATES.AWAITING_HOUR,
                                StageDay(user_state.temp_data, day - 1))
                  ELSE [c EXCEPT !.response_message = DAY_RANGE_ERROR]
         ELSE LET day_value == day_map_get(lower(message_body))
              IN  IF day_value # NoneInt
                  THEN SetState([c EXCEPT !.response_message = ASK_HOUR_NAME(message_body)],
                                phone_number, STATES.AWAITING_HOUR,
                                StageDay(user_state.temp_data, day_value))
                  ELSE Return(Send(c, phone_number, DAY_LIST_RETRY, net), SUCCESS)
    ELSE IF current_state = STATES.AWAITING_HOUR
    THEN IF IsInt(message_body)
         THEN LET hour == int(message_body)
              IN  IF ValidHour(hour)
                  THEN LET preferred_day == StagedDay(user_state.temp_data)
                           c1 == [c EXCEPT
                                    !.users = update_user_preferences(@, phone_number, preferred_day, hour),
                                    !.response_message = CONFIRMATION(days[preferred_day + 1], hour),
                                    !.tasks[phone_number] = @ + 1]
                       IN  SetState(c1, phone_number, STATES.SUBSCRIBED, EmptyDict)
                  ELSE [c EXCEPT !.response_message = HOUR_RANGE_ERROR]
         ELSE [c EXCEPT !.response_message = HOUR_FORMAT_ERROR]
    ELSE IF current_state \in {STATES.SUBSCRIBED, STATES.AWAITING_QUESTION_RESPONSE}
    THEN IF lower(message_body) \in StopTexts
         THEN SetState([c EXCEPT !.users = deactivate_user(@, phone_number),
                                 !.response_message = CANCELLED],
                       phone_number, STATES.INITIAL, EmptyDict)
         ELSE IF lower(message_body) \in StartTexts
         THEN Return(SetState(Send(c, phone_number, RESTART_BUTTONS, net),
                              phone_number, STATES.AWAITING_CONFIRMATION, EmptyDict), SUCCESS)
         ELSE IF IsAllDigits(strip(message_body))
                 /\ current_state = STATES.AWAITING_QUESTION_RESPONSE
         THEN SetState([c EXCEPT !.response_message =
                            FEEDBACK(process_user_response(questions, c.users[phone_number],
                                                           message_body))],
                       phone_number, STATES.SUBSCRIBED, EmptyDict)
         ELSE [c EXCEPT !.response_message = COMMAND_REMINDER]
    ELSE c

\* a handler that returns without sending response_message
FinalSend_Dropped(c, phone_number, net) == Return(c, SUCCESS)

\* routes.py:440-446
FinalSend(c, phone_number, net) ==
    Return(IF c.response_message # NoMessage
           THEN Send(c, phone_number, c.response_message, net)
           ELSE c,
           SUCCESS)

\* a sender test that lets every event through
MissingSender_Never(phone_number) == FALSE

\* routes.py:178: not phone_number
MissingSender(phone_number) == phone_number = ""

\* message_data is None (no processable message)
NoMessageData == [from_number |-> "", message_type |-> "", body |-> EmptyStr,
                  interactive_data |-> EmptyDict, empty |-> TRUE]

\* routes.py:138-450 run on the tables of c0 without interruption: the
\* tables, messages and return value after the request
whatsapp_webhook_on(c0, md, net, question) ==
    LET users_0 == c0.users
        user_states_0 == c0.user_states
    IN  IF md.empty THEN Return(c0, NO_MESSAGES)
        ELSE IF MissingSender(md.from_number) THEN Return(c0, INCOMPLETE)
        ELSE
          LET phone_number == md.from_number
              db == IF phone_number \in DOMAIN users_0 THEN users_0
                    ELSE create_user(users_0, phone_number)
              store == get_user_state(user_states_0, phone_number)
              user_state == store[phone_number]
              current_state == user_state.state
              c1 == [c0 EXCEPT !.users = db, !.user_states = store]
              c2 == InteractiveBranch(c1, phone_number, md, current_state, net, question)
              c3 == IF c2.ret # NoReturn THEN c2
                    ELSE TextBranch(c2, phone_number, md, current_state, user_state, net)
          IN  IF c3.ret # NoReturn THEN c3 ELSE FinalSend(c3, phone_number, net)

\* routes.py:138-450: the request handled on the current tables
whatsapp_webhook(md, net, question) ==
    whatsapp_webhook_on([users |-> users, user_states |-> user_states, tasks |-> tasks,
                         sent |-> <<>>, response_message |-> NoMessage, ret |-> NoReturn],
                        md, net, question)

\* routes.py:452-512: the background task; question is get_random_question()
\* (None: the built-in example question is sent)
send_sample_question(c, phone_number, net, question) ==
    IF phone_number \in DOMAIN c.users
    THEN Send(SetState(c, phone_number, STATES.AWAITING_QUESTION_RESPONSE, EmptyDict),
              phone_number, SAMPLE_QUESTION(question), net)
    ELSE c

\* routes.py:852-900: the loop body for one user; question and ok are that
\* iteration's get_random_question() and send result
BroadcastOne(c, phone_number, question, ok) ==
    IF question = NoneInt THEN c
    ELSE LET c1 == [c EXCEPT !.sent = Append(@, [to |-> phone_number,
                                                 msg |-> QUESTION_LIST(question), ok |-> ok])]
         IN  IF ok
             THEN SetState([c1 EXCEPT !.users[phone_number].last_question_id = question],
                           phone_number, STATES.AWAITING_QUESTION_RESPONSE, EmptyDict)
             ELSE c1

\* the loop of send_question_to_all_users over the users still to visit
RECURSIVE BroadcastLoop(_, _, _, _)
BroadcastLoop(c, todo, pick, oks) ==
    IF todo = {} THEN c
    ELSE LET phone_number == CHOOSE q \in todo : TRUE
         IN  BroadcastLoop(BroadcastOne(c, phone_number, pick[phone_number], oks[phone_number]),
                           todo \ {phone_number}, pick, oks)

\* routes.py:852-900
send_question_to_all_users(c, pick, oks) ==
    LET selected == {q \in DOMAIN c.users :
                        c.users[q].is_active /\ ~c.users[q].is_blacklisted}
    IN  Return(BroadcastLoop(c, selected, pick, oks), SUCCESS)

---------------------------------------------------------------------------
(* Inputs *)

(* GET /webhook, routes.py:105-134.  The query is the dict of the parameters *)
(* that are present.                                                        *)

\* query_params.get of an absent parameter: no text equals it
NoneStr == <<"None">>

\* query_params.get(key)
query_params_get(query, key) == IF key \in DOMAIN query THEN query[key] ELSE NoneStr

\* truth value of an optional string: None and "" are false
Truthy(v) == v # NoneStr /\ v # EmptyStr

\* os.getenv("WHATSAPP_VERIFY_TOKEN", ...)
verify_token == <<"t","o","k","e","n">>

\* routes.py:123
subscribe == <<"s","u","b","s","c","r","i","b","e">>

\* routes.py:105-134: int(None) and int of a non-number raise outside any
\* handler, which the framework answers with status 500
verify_webhook(query) ==
    LET mode == query_params_get(query, "hub.mode")
        token == query_params_get(query, "hub.verify_token")
        challenge == query_params_get(query, "hub.challenge")
    IN  IF Truthy(mode) /\ Truthy(token)
        THEN IF mode = subscribe /\ token = verify_token
             THEN IF challenge # NoneStr /\ IsInt(challenge)
                  THEN Http(200, int(challenge))
                  ELSE Http(500, NoneInt)
             ELSE Http(403, NoneInt)
        ELSE Http(400, NoneInt)

UpperChar(ch) ==
    IF \E i \in 1..Len(LowerChars) : LowerChars[i] = ch
    THEN UpperChars[CHOOSE i \in 1..Len(LowerChars) : LowerChars[i] = ch]
    ELSE ch

upper(s) == [i \in 1..Len(s) |-> UpperChar(s[i])]

capitalize(s) == [i \in 1..Len(s) |-> IF i = 1 THEN UpperChar(s[i]) ELSE s[i]]

\* the words a user may type, in lower case
Words ==
    {<<"s","i">>, <<"s","í">>, <<"y","e","s">>, <<"y">>, <<"n","o">>, <<"n">>,
     <<"d","e","t","e","n","e","r">>, <<"s","t","o","p">>, <<"u","n","s","u","b","s","c","r","i","b","e">>,
     <<"i","n","i","c","i","a","r">>, <<"s","t","a","r","t">>, <<"s","u","b","s","c","r","i","b","e">>,
     <<"l","u","n","e","s">>, <<"m","a","r","t","e","s">>, <<"m","i","é","r","c","o","l","e","s">>,
     <<"m","i","e","r","c","o","l","e","s">>, <<"j","u","e","v","e","s">>,
     <<"v","i","e","r","n","e","s">>, <<"s","á","b","a","d","o">>, <<"s","a","b","a","d","o">>,
     <<"d","o","m","i","n","g","o">>}

\* numbers, near-misses and other text
OtherBodies ==
    {EmptyStr, <<"h","o","l","a">>, <<"s","i"," ">>, <<"l","u","n","e","s"," ">>,
     <<"0">>, <<"3">>, <<" ","3"," ">>, <<"7">>, <<"8">>, <<"9">>,
     <<"2","3">>, <<"2","4">>, <<"2","5">>, <<"-","1">>, <<"9","a","m">>}

TextBodies == Words \cup {upper(w) : w \in Words} \cup OtherBodies

\* the rows of the day-selection list, routes.py:531-537
DayRows ==
    {[reply_type |-> "list_reply", id |-> <<"d","a","y","_">> \o <<Digits[k + 1]>>,
      title |-> capitalize(CHOOSE w \in DOMAIN day_map :
                    day_map[w] = k - 1 /\ w \notin {<<"m","i","e","r","c","o","l","e","s">>,
                                                    <<"s","a","b","a","d","o">>})]
        : k \in 1..7}

\* the rows of a question list: q_<question id>_opt_<option number>
AnswerRows ==
    {[reply_type |-> "list_reply",
      id |-> <<"q","_">> \o <<Digits[q + 1]>> \o <<"_","o","p","t","_">> \o <<Digits[n + 1]>>,
      title |-> <<"o","p","c","i","ó","n">>] : q \in QuestionIds, n \in {1, 2, 4}}
    \cup {[reply_type |-> "list_reply", id |-> <<"q","_","1">>, title |-> <<"o","p","c","i","ó","n">>]}

\* the Yes/No buttons, routes.py:751-766, and a button of another message
Buttons ==
    {[reply_type |-> "button_reply", id |-> yes_button, title |-> <<"S","í">>],
     [reply_type |-> "button_reply", id |-> no_button, title |-> <<"N","o">>],
     [reply_type |-> "button_reply", id |-> <<"o","t","h","e","r">>, title |-> <<"O","t","r","o">>]}

MessageData(from_number, message_type, body, interactive_data) ==
    [from_number |-> from_number, message_type |-> message_type, body |-> body,
     interactive_data |-> interactive_data, empty |-> FALSE]

\* what process_webhook_payload returns: None, or the message with its sender
\* (possibly missing), its type, the body of a text message and the reply of
\* an interactive one
IgnoredPayloads ==
    {NoMessageData, MessageData("", "text", <<"h","o","l","a">>, EmptyDict)}

TextPayloads ==
    {MessageData(p, "text", b, EmptyDict) : p \in Phones, b \in TextBodies}
    \cup {MessageData(p, "interactive", EmptyStr, EmptyDict) : p \in Phones}

ButtonPayloads == {MessageData(p, "interactive", EmptyStr, i) : p \in Phones, i \in Buttons}

ListPayloads ==
    {MessageData(p, "interactive", EmptyStr, i) : p \in Phones, i \in DayRows \cup AnswerRows}

Payloads == IgnoredPayloads \cup TextPayloads \cup ButtonPayloads \cup ListPayloads

\* the text messages that are also tried with a failing send
LossyBodies ==
    {EmptyStr, <<"h","o","l","a">>, <<"s","í">>, <<"n","o">>, <<"3">>, <<"2","3">>,
     <<"2","5">>, <<"l","u","n","e","s">>, <<"d","e","t","e","n","e","r">>,
     <<"i","n","i","c","i","a","r">>}

\* the channel's answers to the sends of one request: a text message or a
\* button reply is answered with at most one send, a list reply with at most two
OneSend == {<<ok, TRUE>> : ok \in BOOLEAN}
TwoSends == {<<ok1, ok2>> : ok1 \in BOOLEAN, ok2 \in BOOLEAN}

\* the query strings of the verification request
ModeValues == {EmptyStr, subscribe, <<"o","t","h","e","r">>}
TokenValues == {EmptyStr, verify_token, <<"w","r","o","n","g">>}
ChallengeValues == {EmptyStr, <<"1","2">>, <<"a","b","c">>}

\* the query with the given parameters; a parameter given as NoneStr is absent
Query(mode, token, challenge) ==
    LET given == ("hub.mode" :> mode) @@ ("hub.verify_token" :> token)
                    @@ ("hub.challenge" :> challenge)
    IN  [k \in {key \in DOMAIN given : given[key] # NoneStr} |-> given[k]]

Queries ==
    {Query(mode, token, challenge) :
        mode \in ModeValues \cup {NoneStr}, token \in TokenValues \cup {NoneStr},
        challenge \in ChallengeValues \cup {NoneStr}}

\* a question store that always has a question to give
RandomQuestion_AnyQuestion == QuestionIds

\* get_random_question(): None when the store is empty
RandomQuestion == IF questions = {} THEN {NoneInt} ELSE questions

---------------------------------------------------------------------------
(* The state machine.  A request is handled in one step; `last` then holds  *)
(* the request, the tables it found, the messages it sent and the value it  *)
(* returned, until the response is delivered (Reply).                       *)

Last(op, md, c) ==
    [op |-> op, md |-> md, pre_users |-> users, pre_states |-> user_states,
     pre_tasks |-> tasks, sent |-> c.sent, ret |-> c.ret,
     query |-> EmptyDict, http |-> HttpOk]

Idle == [op |-> "idle", md |-> NoMessageData, pre_users |-> EmptyDict,
         pre_states |-> EmptyDict, pre_tasks |-> [p \in Phones |-> 0],
         sent |-> <<>>, ret |-> NoReturn, query |-> EmptyDict, http |-> HttpOk]

(* Requests in flight.  A handler runs without interruption up to its next  *)
(* await; between reading the conversation state (routes.py:196) and        *)
(* returning, the awaits are the outbound sends.                            *)

Handlers == {1, 2}

Tables(u, s, t) == [users |-> u, user_states |-> s, tasks |-> t]

NoTables == Tables(EmptyDict, EmptyDict, [p \in Phones |-> 0])

\* a handler: where it is, its message, the state it still has to set after
\* its send returns (NoneInt: none), the tables it found, and whether no
\* other handler has run since it started
IdleHandler == [pc |-> "idle", md |-> NoMessageData, late |-> NoneInt,
                pre |-> NoTables, alone |-> TRUE]

\* run: the handlers; base: the tables when the first of them started;
\* written: the records passed to set_user_state since then, in order
NoHandlers == [run |-> [h \in Handlers |-> IdleHandler], base |-> NoTables, written |-> <<>>]

\* the handler's working state on given tables
ContextOf(t) == [users |-> t.users, user_states |-> t.user_states, tasks |-> t.tasks,
                 sent |-> <<>>, response_message |-> NoMessage, ret |-> NoReturn]

Context == [users |-> users, user_states |-> user_states, tasks |-> tasks,
            sent |-> <<>>, response_message |-> NoMessage, ret |-> NoReturn]

Init ==
    /\ user_states = EmptyDict
    /\ users = EmptyDict
    /\ questions \in {{}, QuestionIds}
    /\ tasks = [p \in Phones |-> 0]
    /\ last = Idle
    /\ handlers = NoHandlers

Commit(op, md, c) ==
    /\ \A p \in Phones : c.tasks[p] <= MaxTasks
    /\ users' = c.users
    /\ user_states' = c.user_states
    /\ tasks' = c.tasks
    /\ last' = Last(op, md, c)
    /\ UNCHANGED <<questions, handlers>>

\* POST /webhook with nothing to process
WebhookIgnored ==
    /\ last = Idle
    /\ \E md \in IgnoredPayloads :
         \E c \in {whatsapp_webhook(md, <<TRUE, TRUE>>, NoneInt)} : Commit("webhook", md, c)

\* POST /webhook with a body that is not JSON: request.json() raises and the
\* handler's except returns the error dict, routes.py:160, 448-450
WebhookNotJson ==
    /\ last = Idle
    /\ last' = Last("webhook", NoMessageData, Return(Context, PARSE_FAILED))
    /\ UNCHANGED <<users, user_states, questions, tasks, handlers>>

\* GET /webhook
VerifyWebhook ==
    /\ last = Idle
    /\ \E query \in Queries :
         last' = [Last("verify", NoMessageData, Context) EXCEPT
                     !.query = query, !.http = verify_webhook(query)]
    /\ UNCHANGED <<users, user_states, questions, tasks, handlers>>

\* POST /webhook with a text message
WebhookText ==
    /\ last = Idle
    /\ \E md \in TextPayloads, net \in OneSend :
         /\ net[1] \/ md.body \in LossyBodies
         /\ \E c \in {whatsapp_webhook(md, net, NoneInt)} : Commit("webhook", md, c)

\* POST /webhook with a button reply
WebhookButton ==
    /\ last = Idle
    /\ \E md \in ButtonPayloads, net \in OneSend :
         \E c \in {whatsapp_webhook(md, net, NoneInt)} : Commit("webhook", md, c)

\* POST /webhook with a list reply
WebhookList ==
    /\ last = Idle
    /\ \E md \in ListPayloads, net \in TwoSends, question \in RandomQuestion :
         \E c \in {whatsapp_webhook(md, net, question)} : Commit("webhook", md, c)

\* a pending background task runs
SampleQuestion ==
    /\ last = Idle
    /\ \E p \in Phones, net \in OneSend, question \in RandomQuestion :
        /\ tasks[p] > 0
        /\ \E c \in {send_sample_question([Context EXCEPT !.tasks[p] = @ - 1], p, net, question)} :
              Commit("sample", MessageData(p, "", EmptyStr, EmptyDict), c)

\* POST /admin/send-question-to-all
Broadcast ==
    /\ last = Idle
    /\ \E pick \in [Phones -> RandomQuestion], oks \in [Phones -> BOOLEAN] :
         \E c \in {send_question_to_all_users(Context, pick, oks)} :
              Commit("broadcast", NoMessageData, c)

\* POST /admin/load-questions
LoadQuestions ==
    /\ last = Idle
    /\ questions' = QuestionIds
    /\ last' = Last("load", NoMessageData, Return(Context, SUCCESS))
    /\ UNCHANGED <<users, user_states, tasks, handlers>>

\* the response is delivered to the caller
Reply ==
    /\ last # Idle
    /\ last' = Idle
    /\ UNCHANGED <<users, user_states, questions, tasks, handlers>>

Next ==
    \/ WebhookIgnored \/ WebhookNotJson
    \/ WebhookText \/ WebhookButton \/ WebhookList
    \/ SampleQuestion \/ Broadcast \/ LoadQuestions \/ Reply

Spec == Init /\ [][Next]_vars

\* the verification endpoint on its own: it reads and writes no table
VerifyNext == VerifyWebhook \/ Reply

VerifySpec == Init /\ [][VerifyNext]_vars

---------------------------------------------------------------------------
(* Overlapping requests: text messages handled by two handlers that may     *)
(* interleave at their awaits.                                              *)

\* a state test that never sends before it sets
LateState_Unchanged(current_state, message_body) == current_state

\* the text branches that await a send before set_user_state or before
\* returning: routes.py:295-309, 313-323, 376-382, 419-427
SendsFirst(current_state, message_body) ==
    \/ current_state = STATES.INITIAL
    \/ current_state = STATES.AWAITING_CONFIRMATION /\ lower(message_body) \in YesTexts
    \/ /\ current_state = STATES.AWAITING_DAY
       /\ ~IsInt(message_body)
       /\ day_map_get(lower(message_body)) = NoneInt
    \/ /\ current_state \in {STATES.SUBSCRIBED, STATES.AWAITING_QUESTION_RESPONSE}
       /\ lower(message_body) \notin StopTexts
       /\ lower(message_body) \in StartTexts

\* the state those branches set once the send has returned (routes.py:306,
\* 320, 426); the branch of 376-382 returns without setting one
LateState(current_state, message_body) ==
    IF current_state = STATES.INITIAL THEN STATES.AWAITING_CONFIRMATION
    ELSE IF current_state = STATES.AWAITING_CONFIRMATION THEN STATES.AWAITING_DAY
    ELSE IF current_state = STATES.AWAITING_DAY THEN NoneInt
    ELSE STATES.AWAITING_CONFIRMATION

\* the text messages of the overlapping requests
ConcBodies ==
    {<<"s","í">>, <<"n","o">>, <<"h","o","l","a">>, <<"3">>, <<"2","3">>,
     <<"d","e","t","e","n","e","r">>, <<"i","n","i","c","i","a","r">>}

ConcPayloads == {MessageData(p, "text", b, EmptyDict) : p \in Phones, b \in ConcBodies}

\* another handler has run
Disturbed(r) == IF r.pc = "idle" THEN r ELSE [r EXCEPT !.alone = FALSE]

\* routes.py:188-197 and the branch of the state read, up to the first await
Receive(h, md) ==
    /\ handlers.run[h].pc = "idle"
    /\ LET phone_number == md.from_number
           db == IF phone_number \in DOMAIN users THEN users
                 ELSE create_user(users, phone_number)
           store == get_user_state(user_states, phone_number)
           user_state == store[phone_number]
           current_state == user_state.state
           c1 == [Context EXCEPT !.users = db, !.user_states = store]
           first == SendsFirst(current_state, md.body)
           c == IF first THEN c1
                ELSE TextBranch(c1, phone_number, md, current_state, user_state, <<TRUE, TRUE>>)
       IN  /\ \A p \in Phones : c.tasks[p] <= MaxTasks
           /\ users' = c.users
           /\ user_states' = c.user_states
           /\ tasks' = c.tasks
           /\ handlers' =
                [run |-> [g \in Handlers |->
                            IF g = h
                            THEN [pc |-> "sending", md |-> md,
                                  late |-> IF first THEN LateState(current_state, md.body)
                                           ELSE NoneInt,
                                  pre |-> Tables(users, user_states, tasks), alone |-> TRUE]
                            ELSE Disturbed(handlers.run[g])],
                 base |-> IF \A g \in Handlers : handlers.run[g].pc = "idle"
                          THEN Tables(users, user_states, tasks) ELSE handlers.base,
                 written |-> IF c.user_states[phone_number] # user_state
                             THEN Append(handlers.written, c.user_states[phone_number])
                             ELSE handlers.written]
    /\ UNCHANGED <<questions, last>>

\* the awaited send returns: the handler sets the state it had decided on,
\* if any, and returns
Resume(h) ==
    /\ handlers.run[h].pc = "sending"
    /\ LET r == handlers.run[h]
           phone_number == r.md.from_number
       IN  /\ user_states' = IF r.late # NoneInt
                             THEN set_user_state(user_states, phone_number, r.late, EmptyDict)
                             ELSE user_states
           /\ handlers' =
                [handlers EXCEPT
                    !.run = [g \in Handlers |->
                                IF g = h THEN [r EXCEPT !.pc = "done"] ELSE Disturbed(@[g])],
                    !.written = IF r.late # NoneInt
                                THEN Append(@, StateRecord(r.late, EmptyDict)) ELSE @]
    /\ UNCHANGED <<users, questions, tasks, last>>

\* every handler that started has returned
RoundOver ==
    /\ \A h \in Handlers : handlers.run[h].pc # "sending"
    /\ \E h \in Handlers : handlers.run[h].pc = "done"
    /\ handlers' = NoHandlers
    /\ UNCHANGED <<users, user_states, questions, tasks, last>>

ConcNext ==
    \/ \E h \in Handlers, md \in ConcPayloads : Receive(h, md)
    \/ \E h \in Handlers : Resume(h)
    \/ RoundOver

ConcSpec == Init /\ [][ConcNext]_vars

---------------------------------------------------------------------------
(* Vocabulary of the properties: the last request and what it did *)

\* a webhook request with a sender has just been handled
Handled == last.op = "webhook" /\ ~last.md.empty /\ last.md.from_number # ""

Sender == last.md.from_number

\* the sender's conversation record before the request (INITIAL when absent)
PreRecord ==
    IF Sender \in DOMAIN last.pre_states THEN last.pre_states[Sender]
    ELSE [state |-> 0, temp_data |-> <<>>]

PreState == PreRecord.state

PostRecord == user_states[Sender]

\* the messages sent by the request, in order
SentMsgs == [i \in 1..Len(last.sent) |-> last.sent[i].msg]

AllToSender == \A i \in 1..Len(last.sent) : last.sent[i].to = Sender

FreeText == last.md.message_type = "text"

Body == last.md.body

ButtonTap(id) ==
    /\ last.md.message_type = "interactive"
    /\ DOMAIN last.md.interactive_data # {}
    /\ last.md.interactive_data.reply_type = "button_reply"
    /\ last.md.interactive_data.id = id

ListSelection ==
    /\ last.md.message_type = "interactive"
    /\ DOMAIN last.md.interactive_data # {}
    /\ last.md.interactive_data.reply_type = "list_reply"

\* the user table is as the request found it
UserRecordUnchanged == Sender \in DOMAIN last.pre_users /\ users = last.pre_users

\* the spellings of a word set that are equal to it ignoring case
AnyCase(W) == W \cup {upper(w) : w \in W}

YesSpellings == AnyCase({<<"s","i">>, <<"s","í">>, <<"y","e","s">>, <<"y">>})

NoSpellings == AnyCase({<<"n","o">>, <<"n">>})

StopSpellings == AnyCase({<<"d","e","t","e","n","e","r">>, <<"s","t","o","p">>,
                          <<"u","n","s","u","b","s","c","r","i","b","e">>})

StartSpellings == AnyCase({<<"i","n","i","c","i","a","r">>, <<"s","t","a","r","t">>,
                           <<"s","u","b","s","c","r","i","b","e">>})

SaidYes ==
    \/ ButtonTap(<<"y","e","s","_","b","u","t","t","o","n">>)
    \/ FreeText /\ Body \in YesSpellings

SaidNo ==
    \/ ButtonTap(<<"n","o","_","b","u","t","t","o","n">>)
    \/ FreeText /\ Body \in NoSpellings

\* the spellings of the weekdays, Monday first
WeekdaySpellings ==
    <<{<<"l","u","n","e","s">>}, {<<"m","a","r","t","e","s">>},
      {<<"m","i","é","r","c","o","l","e","s">>, <<"m","i","e","r","c","o","l","e","s">>},
      {<<"j","u","e","v","e","s">>}, {<<"v","i","e","r","n","e","s">>},
      {<<"s","á","b","a","d","o">>, <<"s","a","b","a","d","o">>},
      {<<"d","o","m","i","n","g","o">>}>>

WeekdayNames == <<"lunes", "martes", "miércoles", "jueves", "viernes", "sábado", "domingo">>

\* the texts among the inputs that are integers, with their values
Numerals ==
    (<<"0">> :> 0) @@ (<<"3">> :> 3) @@ (<<" ","3"," ">> :> 3) @@
    (<<"7">> :> 7) @@ (<<"8">> :> 8) @@ (<<"9">> :> 9) @@ (<<"2","3">> :> 23) @@ (<<"2","4">> :> 24) @@
    (<<"2","5">> :> 25) @@ (<<"-","1">> :> (0 - 1))

IsNumeral(b) == b \in DOMAIN Numerals

\* the spellings of weekday k (0 = Monday): lower case, upper case, capitalised
SpellingsOf(k) ==
    AnyCase(WeekdaySpellings[k + 1]) \cup {capitalize(w) : w \in WeekdaySpellings[k + 1]}

\* spelling -> weekday index
WeekdayIndex ==
    [b \in UNION {SpellingsOf(k) : k \in 0..6} |-> CHOOSE k \in 0..6 : b \in SpellingsOf(k)]

IsWeekdayName(b) == b \in DOMAIN WeekdayIndex

\* b is a day in the sense of the day question: an integer 1..7 or a weekday name
IsDayText(b) ==
    \/ IsNumeral(b) /\ Numerals[b] \in 1..7
    \/ IsWeekdayName(b)

DayIndexOf(b) == IF IsNumeral(b) THEN Numerals[b] - 1 ELSE WeekdayIndex[b]

IsHourText(b) == IsNumeral(b) /\ Numerals[b] \in 0..23

OnlyDay(d) == [k \in {"preferred_day"} |-> d]

---------------------------------------------------------------------------
(* C1 *)

\* C1: for a user in INITIAL, every inbound event with a sender makes the
\* handler send the Yes/No button prompt and leaves the state
\* AWAITING_CONFIRMATION.
C1_InitialAnyInbound ==
    (Handled /\ PreState = STATES.INITIAL)
        => /\ \E i \in 1..Len(last.sent) :
                last.sent[i].to = Sender /\ last.sent[i].msg.kind = "buttons"
           /\ PostRecord.state = STATES.AWAITING_CONFIRMATION

---------------------------------------------------------------------------
(* C2 *)

\* C2: in AWAITING_CONFIRMATION a yes button tap, or a text equal ignoring
\* case to si, sí, yes or y, sends the day-selection list, sets the state to
\* AWAITING_DAY with empty temp data and leaves the user record as it was.
C2_ConfirmYes ==
    (Handled /\ PreState = STATES.AWAITING_CONFIRMATION /\ SaidYes)
        => /\ Len(last.sent) = 1 /\ AllToSender
           /\ SentMsgs[1].kind = "day_list"
           /\ PostRecord = [state |-> STATES.AWAITING_DAY, temp_data |-> <<>>]
           /\ UserRecordUnchanged

C2_Witness ==
    /\ Handled /\ PreState = STATES.AWAITING_CONFIRMATION
    /\ FreeText /\ Body = <<"S","Í">>
    /\ PostRecord.state = STATES.AWAITING_DAY

---------------------------------------------------------------------------
(* C3 *)

\* C3: in AWAITING_CONFIRMATION a no button tap, or a text equal ignoring
\* case to no or n, sends the decline acknowledgment, deactivates the user
\* and sets the state to INITIAL.
C3_ConfirmNo ==
    (Handled /\ PreState = STATES.AWAITING_CONFIRMATION /\ SaidNo)
        => /\ Len(last.sent) = 1 /\ AllToSender
           /\ SentMsgs[1].text \in {"decline_button", "decline_text"}
           /\ ~users[Sender].is_active
           /\ PostRecord.state = STATES.INITIAL

---------------------------------------------------------------------------
(* C4 *)

\* C4: in AWAITING_CONFIRMATION every event that is neither a yes nor a no
\* sends the "didn't understand" prompt and leaves the conversation record
\* and the user record as they were.
C4_ConfirmOther ==
    (Handled /\ PreState = STATES.AWAITING_CONFIRMATION /\ ~SaidYes /\ ~SaidNo)
        => /\ Len(last.sent) = 1 /\ AllToSender
           /\ SentMsgs[1].kind = "text" /\ SentMsgs[1].text = "not_understood"
           /\ PostRecord = PreRecord
           /\ UserRecordUnchanged

C4_Witness ==
    /\ Handled /\ PreState = STATES.AWAITING_CONFIRMATION
    /\ ListSelection
    /\ Len(last.sent) = 1 /\ SentMsgs[1].text = "not_understood"
    /\ PostRecord.state = STATES.AWAITING_CONFIRMATION

---------------------------------------------------------------------------
(* C5 *)

\* C5: in AWAITING_DAY a text that is an integer d in 1..7 or a weekday name
\* stages preferred_day = d - 1 (or the name's index, Monday = 0), sends the
\* hour question, sets the state to AWAITING_HOUR and persists nothing to
\* the user record.
C5_DayTextStaged ==
    (Handled /\ PreState = STATES.AWAITING_DAY /\ FreeText /\ IsDayText(Body))
        => /\ PostRecord = [state |-> STATES.AWAITING_HOUR,
                            temp_data |-> OnlyDay(DayIndexOf(Body))]
           /\ Len(last.sent) = 1 /\ AllToSender
           /\ SentMsgs[1].kind = "text"
           /\ SentMsgs[1].text \in {"ask_hour_day_number", "ask_hour_day_name"}
           /\ UserRecordUnchanged

C5_Witness ==
    /\ Handled /\ PreState = STATES.AWAITING_DAY
    /\ FreeText /\ Body = <<"3">>
    /\ PostRecord = [state |-> STATES.AWAITING_HOUR, temp_data |-> OnlyDay(2)]

---------------------------------------------------------------------------
(* C6 *)

\* C6 as stated: in AWAITING_DAY every text that is neither a weekday name
\* nor an integer 1..7 (integers outside 1..7 included) re-sends the
\* day-selection list and leaves state and temp data unchanged; the names
\* and 1..7 resolve to their day.
C6_SingleUnparseableBranch ==
    (Handled /\ PreState = STATES.AWAITING_DAY /\ FreeText)
        => IF IsDayText(Body)
           THEN PostRecord = [state |-> STATES.AWAITING_HOUR,
                              temp_data |-> OnlyDay(DayIndexOf(Body))]
           ELSE /\ Len(last.sent) = 1
                /\ SentMsgs[1].kind = "day_list"
                /\ PostRecord = PreRecord

\* C6 amended: the names (any case, both spellings) and 1..7 resolve to
\* their day; every other text leaves state, temp data and the user record
\* unchanged, an integer outside 1..7 being answered with the 1-to-7 range
\* prompt as text and every non-integer text with the day-selection list.
C6_DayResolution ==
    (Handled /\ PreState = STATES.AWAITING_DAY /\ FreeText)
        => IF IsDayText(Body)
           THEN PostRecord = [state |-> STATES.AWAITING_HOUR,
                              temp_data |-> OnlyDay(DayIndexOf(Body))]
           ELSE /\ Len(last.sent) = 1 /\ AllToSender
                /\ IF IsNumeral(Body)
                   THEN SentMsgs[1].kind = "text" /\ SentMsgs[1].text = "day_range"
                   ELSE SentMsgs[1].kind = "day_list" /\ SentMsgs[1].text = "retry"
                /\ PostRecord = PreRecord
                /\ UserRecordUnchanged

C6_Witness ==
    /\ Handled /\ PreState = STATES.AWAITING_DAY
    /\ FreeText /\ Body = <<"8">>
    /\ Len(last.sent) = 1 /\ SentMsgs[1].text = "day_range"
    /\ PostRecord.state = STATES.AWAITING_DAY

---------------------------------------------------------------------------
(* C7 *)

\* C7: in AWAITING_DAY a list selection titled with a weekday, with a
\* question available and the send accepted, persists that weekday's index
\* and hour 9, records the fetched question as the last question, sends it
\* as a list and sets the state to AWAITING_QUESTION_RESPONSE.
C7_DayListSubscribes ==
    (/\ Handled /\ PreState = STATES.AWAITING_DAY /\ ListSelection
     /\ IsWeekdayName(last.md.interactive_data.title)
     /\ questions # {}
     /\ \A i \in 1..Len(last.sent) : last.sent[i].ok)
        => \E q \in questions :
              /\ Len(last.sent) = 1 /\ AllToSender
              /\ SentMsgs[1] = [kind |-> "question_list", text |-> "question", args |-> <<q>>]
              /\ users[Sender].preferred_day = DayIndexOf(last.md.interactive_data.title)
              /\ users[Sender].preferred_hour = 9
              /\ users[Sender].last_question_id = q
              /\ PostRecord = [state |-> STATES.AWAITING_QUESTION_RESPONSE, temp_data |-> <<>>]

C7_Witness ==
    /\ Handled /\ PreState = STATES.AWAITING_DAY /\ ListSelection
    /\ last.md.interactive_data.title = <<"M","i","é","r","c","o","l","e","s">>
    /\ users[Sender].preferred_day = 2 /\ users[Sender].preferred_hour = 9
    /\ users[Sender].last_question_id = 2
    /\ PostRecord.state = STATES.AWAITING_QUESTION_RESPONSE

---------------------------------------------------------------------------
(* C8 *)

\* C8: in AWAITING_HOUR a text that is an integer h in 0..23 persists the
\* staged day and h, sends the confirmation naming that day and hour, sets
\* the state to SUBSCRIBED with empty temp data and schedules exactly one
\* background sample-question send.
C8_HourSubscribes ==
    (Handled /\ PreState = STATES.AWAITING_HOUR /\ FreeText /\ IsHourText(Body))
        => /\ "preferred_day" \in DOMAIN PreRecord.temp_data
           /\ users[Sender].preferred_day = PreRecord.temp_data["preferred_day"]
           /\ users[Sender].preferred_hour = Numerals[Body]
           /\ Len(last.sent) = 1 /\ AllToSender
           /\ SentMsgs[1] = [kind |-> "text", text |-> "confirmation",
                             args |-> <<WeekdayNames[PreRecord.temp_data["preferred_day"] + 1],
                                        Numerals[Body]>>]
           /\ PostRecord = [state |-> STATES.SUBSCRIBED, temp_data |-> <<>>]
           /\ tasks[Sender] = last.pre_tasks[Sender] + 1

C8_Witness ==
    /\ Handled /\ PreState = STATES.AWAITING_HOUR
    /\ FreeText /\ Body = <<"2","3">>
    /\ PreRecord.temp_data = OnlyDay(6)
    /\ users[Sender].preferred_day = 6 /\ users[Sender].preferred_hour = 23
    /\ PostRecord.state = STATES.SUBSCRIBED
    /\ tasks[Sender] = 1

---------------------------------------------------------------------------
(* C9 *)

\* C9: in AWAITING_HOUR exactly the integers 0..23 are accepted; every other
\* text is answered with one error prompt as text, persists nothing,
\* schedules nothing and leaves the state AWAITING_HOUR with the staged day.
C9_HourRejected ==
    (Handled /\ PreState = STATES.AWAITING_HOUR /\ FreeText)
        => IF IsHourText(Body)
           THEN PostRecord.state = STATES.SUBSCRIBED
           ELSE /\ Len(last.sent) = 1 /\ AllToSender
                /\ SentMsgs[1].kind = "text"
                /\ SentMsgs[1].text \in {"hour_range", "hour_format"}
                /\ UserRecordUnchanged
                /\ tasks = last.pre_tasks
                /\ PostRecord = PreRecord
                /\ "preferred_day" \in DOMAIN PostRecord.temp_data

C9_Witness ==
    /\ Handled /\ PreState = STATES.AWAITING_HOUR
    /\ FreeText /\ Body = <<"2","5">>
    /\ Len(last.sent) = 1 /\ SentMsgs[1].text = "hour_range"
    /\ PostRecord = [state |-> STATES.AWAITING_HOUR, temp_data |-> OnlyDay(2)]

---------------------------------------------------------------------------
(* C10 *)

\* C10: in SUBSCRIBED or AWAITING_QUESTION_RESPONSE a text equal ignoring
\* case to detener, stop or unsubscribe deactivates the user, sends the
\* cancellation notice and sets the state to INITIAL.
C10_StopCommand ==
    (/\ Handled
     /\ PreState \in {STATES.SUBSCRIBED, STATES.AWAITING_QUESTION_RESPONSE}
     /\ FreeText
     /\ Body \in StopSpellings)
        => /\ ~users[Sender].is_active
           /\ Len(last.sent) = 1 /\ AllToSender
           /\ SentMsgs[1].kind = "text" /\ SentMsgs[1].text = "cancelled"
           /\ PostRecord = [state |-> STATES.INITIAL, temp_data |-> <<>>]

C10_Witness ==
    /\ Handled /\ PreState = STATES.AWAITING_QUESTION_RESPONSE
    /\ last.pre_users[Sender].is_active
    /\ FreeText /\ Body = <<"D","E","T","E","N","E","R">>
    /\ ~users[Sender].is_active
    /\ PostRecord.state = STATES.INITIAL

---------------------------------------------------------------------------
(* C11 *)

\* C11: in SUBSCRIBED or AWAITING_QUESTION_RESPONSE a text equal ignoring
\* case to iniciar, start or subscribe re-sends the Yes/No button prompt and
\* sets the state to AWAITING_CONFIRMATION; the user stays active and the
\* persisted preferences are as before.
C11_StartCommand ==
    (/\ Handled
     /\ PreState \in {STATES.SUBSCRIBED, STATES.AWAITING_QUESTION_RESPONSE}
     /\ FreeText
     /\ Body \in StartSpellings)
        => /\ Len(last.sent) = 1 /\ AllToSender
           /\ SentMsgs[1].kind = "buttons"
           /\ PostRecord = [state |-> STATES.AWAITING_CONFIRMATION, temp_data |-> <<>>]
           /\ UserRecordUnchanged

C11_Witness ==
    /\ Handled /\ PreState = STATES.SUBSCRIBED
    /\ FreeText /\ Body = <<"I","N","I","C","I","A","R">>
    /\ last.pre_users[Sender].is_active /\ users[Sender].is_active
    /\ users[Sender].preferred_hour = 23
    /\ Len(last.sent) = 1 /\ SentMsgs[1].kind = "buttons"
    /\ PostRecord.state = STATES.AWAITING_CONFIRMATION

---------------------------------------------------------------------------
(* C12 *)

\* the ids q_<id>_opt_<n> of the rows of a question list
AnswerIds ==
    {<<"q","_">> \o <<Digits[q + 1]>> \o <<"_","o","p","t","_">> \o <<Digits[n + 1]>>
        : q \in 1..2, n \in 1..4}

SelectedId == last.md.interactive_data.id

\* C12: in AWAITING_QUESTION_RESPONSE every list selection whose id is
\* q_<id>_opt_<n> is graded: one feedback message with the next-delivery-day
\* reminder is sent and the state becomes SUBSCRIBED, whichever operation put
\* the user in AWAITING_QUESTION_RESPONSE.
C12_ListAnswerGraded ==
    (/\ Handled
     /\ PreState = STATES.AWAITING_QUESTION_RESPONSE
     /\ ListSelection
     /\ SelectedId \in AnswerIds)
        => /\ Len(last.sent) = 1 /\ AllToSender
           /\ SentMsgs[1].text = "feedback_next"
           /\ PostRecord.state = STATES.SUBSCRIBED
           /\ last.ret.status = "success"

---------------------------------------------------------------------------
(* C13 *)

\* the texts among the inputs that consist of digits only
DigitTexts == {b \in DOMAIN Numerals : \A i \in 1..Len(b) : b[i] \in {"0","1","2","3","4","5","6","7","8","9"}}

\* the verdict on option n of question q: the correct option of question q is q
Verdict(q, n) ==
    IF q = 0 - 1 \/ q \notin questions \/ n \notin 1..3 THEN "error"
    ELSE IF n = q THEN "correct" ELSE "incorrect"

\* C13: in AWAITING_QUESTION_RESPONSE a text of digits only is graded against
\* the user's last recorded question id, the feedback is sent and the state
\* becomes SUBSCRIBED.
C13_DigitAnswerGraded ==
    (/\ Handled
     /\ PreState = STATES.AWAITING_QUESTION_RESPONSE
     /\ FreeText
     /\ Body \in DigitTexts)
        => /\ Len(last.sent) = 1 /\ AllToSender
           /\ SentMsgs[1].text = "feedback"
           /\ SentMsgs[1].args = <<Verdict(last.pre_users[Sender].last_question_id, Numerals[Body])>>
           /\ PostRecord = [state |-> STATES.SUBSCRIBED, temp_data |-> <<>>]

C13_Witness ==
    /\ Handled /\ PreState = STATES.AWAITING_QUESTION_RESPONSE
    /\ FreeText /\ Body = <<"2","3">>
    /\ last.pre_users[Sender].last_question_id = 2
    /\ Len(last.sent) = 1 /\ SentMsgs[1].text = "feedback"
    /\ PostRecord.state = STATES.SUBSCRIBED

---------------------------------------------------------------------------
(* C14 *)

\* C14: in SUBSCRIBED or AWAITING_QUESTION_RESPONSE an event that is not a
\* stop command, not a start command and not an answer to a pending question
\* (digits text or a list selection while AWAITING_QUESTION_RESPONSE) gets the
\* command reminder, and the conversation record and the user record stay as
\* they were.
C14_ReminderOtherwise ==
    (/\ Handled
     /\ PreState \in {STATES.SUBSCRIBED, STATES.AWAITING_QUESTION_RESPONSE}
     /\ ~(FreeText /\ Body \in StopSpellings \cup StartSpellings)
     /\ ~(PreState = STATES.AWAITING_QUESTION_RESPONSE
            /\ (ListSelection \/ (FreeText /\ IsNumeral(Body)))))
        => /\ Len(last.sent) = 1 /\ AllToSender
           /\ SentMsgs[1].text = "commands"
           /\ PostRecord = PreRecord
           /\ UserRecordUnchanged

---------------------------------------------------------------------------
(* C15 *)

\* an event no row of the transition table covers: a yes or no button tap
\* after the confirmation step, or a list selection where no list is pending
UncoveredEvent ==
    \/ /\ PreState \in {STATES.AWAITING_DAY, STATES.AWAITING_HOUR,
                        STATES.SUBSCRIBED, STATES.AWAITING_QUESTION_RESPONSE}
       /\ \/ ButtonTap(<<"y","e","s","_","b","u","t","t","o","n">>)
          \/ ButtonTap(<<"n","o","_","b","u","t","t","o","n">>)
    \/ /\ PreState \in {STATES.AWAITING_CONFIRMATION, STATES.AWAITING_HOUR, STATES.SUBSCRIBED}
       /\ ListSelection

\* C15: an event that no row of the transition table covers is answered with
\* a reminder or clarification message and leaves the conversation state as
\* it was: the handler never stays silent and never changes the state.
C15_FallbackKeepsState ==
    (Handled /\ UncoveredEvent)
        => /\ Len(last.sent) >= 1 /\ AllToSender
           /\ PostRecord.state = PreState

---------------------------------------------------------------------------
(* C16 *)

\* what the list path persists for weekday k (0 = Monday): the day and hour
\* of the user after handle_day_selection on that weekday's row
ListPathPrefs(k) ==
    LET title == capitalize(CHOOSE w \in WeekdaySpellings[k + 1] : TRUE)
        u == handle_day_selection(Context, Sender, title, <<TRUE, TRUE>>, 0 - 1).c.users[Sender]
    IN  <<u.preferred_day, u.preferred_hour>>

PersistedPrefs == <<users[Sender].preferred_day, users[Sender].preferred_hour>>

\* the text path has just persisted the (valid) day staged in AWAITING_DAY
TextPathSubscribed ==
    /\ Handled /\ PreState = STATES.AWAITING_HOUR
    /\ FreeText /\ IsHourText(Body)
    /\ DOMAIN PreRecord.temp_data = {"preferred_day"}

\* the list path has just handled the row of a weekday
ListPathChosen ==
    /\ Handled /\ PreState = STATES.AWAITING_DAY
    /\ ListSelection
    /\ IsWeekdayName(last.md.interactive_data.title)

\* C16 as stated: for the same weekday, the text path (day text, then hour)
\* leaves the same preferred day and preferred hour in the user record as
\* the list path does.
C16_PathsPersistIdentically ==
    TextPathSubscribed => PersistedPrefs = ListPathPrefs(PreRecord.temp_data.preferred_day)

\* C16 amended: for the same weekday both paths persist the same preferred
\* day; the list path persists hour 9 and the text path the hour the user
\* typed, so the records agree exactly when that hour is 9.  The text path
\* ends in SUBSCRIBED, the list path in AWAITING_QUESTION_RESPONSE or, when
\* no question could be delivered, still in AWAITING_DAY.
C16_PathsPersistSameDay ==
    /\ TextPathSubscribed =>
          LET k == PreRecord.temp_data.preferred_day
          IN  /\ PersistedPrefs[1] = ListPathPrefs(k)[1]
              /\ PersistedPrefs[1] = k
              /\ PersistedPrefs[2] = Numerals[Body]
              /\ (PersistedPrefs = ListPathPrefs(k)) <=> (Numerals[Body] = 9)
              /\ PostRecord.state = STATES.SUBSCRIBED
    /\ ListPathChosen =>
          LET k == WeekdayIndex[last.md.interactive_data.title]
          IN  /\ PersistedPrefs = <<k, 9>>
              /\ PostRecord.state \in {STATES.AWAITING_QUESTION_RESPONSE, STATES.AWAITING_DAY}
              /\ (last.ret.status = "success" /\ Len(last.sent) = 1 /\ last.sent[1].ok
                    /\ SentMsgs[1].kind = "question_list")
                   => PostRecord.state = STATES.AWAITING_QUESTION_RESPONSE

C16_Witness ==
    /\ TextPathSubscribed
    /\ PreRecord.temp_data.preferred_day = 2
    /\ Body = <<"2","3">>
    /\ PersistedPrefs = <<2, 23>>
    /\ ListPathPrefs(2) = <<2, 9>>
    /\ PostRecord.state = STATES.SUBSCRIBED

---------------------------------------------------------------------------
(* C17 *)

\* the request carried no processable message, or a message without sender
NothingToProcess ==
    /\ last.op = "webhook"
    /\ last.ret # PARSE_FAILED
    /\ (last.md.empty \/ last.md.from_number = "")

\* C17: a payload with no processable message, or whose message has no
\* sender, is answered with success and changes nothing: no user row, no
\* conversation record, no background task, and no message is sent.
C17_NothingToProcess ==
    NothingToProcess
        => /\ last.ret.status = "success"
           /\ users = last.pre_users
           /\ user_states = last.pre_states
           /\ tasks = last.pre_tasks
           /\ last.sent = <<>>

C17_Witness ==
    /\ last.op = "webhook" /\ ~last.md.empty /\ last.md.from_number = ""
    /\ last.md.body = <<"h","o","l","a">>
    /\ last.ret.status = "success" /\ last.ret.detail = "Incomplete message data"
    /\ users = last.pre_users /\ DOMAIN users # {}
    /\ last.sent = <<>>

---------------------------------------------------------------------------
(* C18 *)

Verified == last.op = "verify"

QueryKeys == {"hub.mode", "hub.verify_token", "hub.challenge"}

\* C18: verification has three outcomes: the challenge as an integer when
\* the three parameters are present and the token matches, status 400 when
\* one of mode, verify_token or challenge is missing, status 403 when the
\* token does not match; no other status is produced.
C18_ThreeOutcomes ==
    Verified
        => /\ last.http.code \in {200, 400, 403}
           /\ (DOMAIN last.query # QueryKeys) => last.http.code = 400
           /\ (/\ DOMAIN last.query = QueryKeys
               /\ last.query["hub.mode"] = <<"s","u","b","s","c","r","i","b","e">>
               /\ last.query["hub.verify_token"] = <<"t","o","k","e","n">>
               /\ last.query["hub.challenge"] = <<"1","2">>)
                 => last.http = [code |-> 200, body |-> 12]
           /\ (/\ DOMAIN last.query = QueryKeys
               /\ last.query["hub.verify_token"] = <<"w","r","o","n","g">>)
                 => last.http.code = 403

---------------------------------------------------------------------------
(* C19 *)

\* C19: every error response of the webhook handler is the dict
\* {status: "error", message}, whatever path produced it.
C19_ErrorShape ==
    (last.op = "webhook" /\ last.ret.status = "error")
        => last.ret.keys = {"status", "message"}

---------------------------------------------------------------------------
(* C20 *)

\* a user without a record
Stranger == "51000"

\* C20: the store holds one record per user identifier.  get_user_state
\* returns the stored record of a present user and changes nothing; for an
\* absent user it creates and returns the record (INITIAL, empty temp data).
\* set_user_state replaces the user's whole record: the temp data is the one
\* passed, empty when omitted, and no key of the previous temp data survives.
C20_StateStore ==
    /\ DOMAIN user_states \subseteq Phones
    /\ \A p \in Phones \cup {Stranger} :
         /\ LET got == get_user_state(user_states, p)
            IN  /\ DOMAIN got = DOMAIN user_states \cup {p}
                /\ got[p] = IF p \in DOMAIN user_states THEN user_states[p]
                            ELSE [state |-> 0, temp_data |-> <<>>]
                /\ \A q \in DOMAIN user_states : got[q] = user_states[q]
         /\ \A s \in {0, 3, 5}, t \in {<<>>, [hint |-> 1]} :
              LET put == set_user_state(user_states, p, s, t)
              IN  /\ DOMAIN put = DOMAIN user_states \cup {p}
                  /\ put[p] = [state |-> s, temp_data |-> t]
                  /\ DOMAIN put[p].temp_data = DOMAIN t
                  /\ \A q \in DOMAIN user_states \ {p} : put[q] = user_states[q]

\* a record with staged data has just been replaced by one without
C20_Witness ==
    /\ Handled
    /\ "preferred_day" \in DOMAIN PreRecord.temp_data
    /\ PostRecord = [state |-> 4, temp_data |-> <<>>]
    /\ DOMAIN user_states = {Sender}

---------------------------------------------------------------------------
(* C22 *)

\* a day list selection that cannot be served: the title names no weekday,
\* or the question store is empty
DaySelectionFails ==
    /\ Handled /\ PreState = STATES.AWAITING_DAY
    /\ ListSelection
    /\ (~IsWeekdayName(last.md.interactive_data.title) \/ questions = {})

\* C22: in AWAITING_DAY a list selection whose title names no weekday, or one
\* handled while no question is available, makes the handler send an error
\* message to the user and leaves the state AWAITING_DAY.
C22_DaySelectionError ==
    DaySelectionFails
        => /\ Len(last.sent) >= 1 /\ AllToSender
           /\ SentMsgs[1].kind = "text"
           /\ SentMsgs[1].text =
                 (IF IsWeekdayName(last.md.interactive_data.title)
                  THEN "no_questions" ELSE "invalid_day")
           /\ PostRecord.state = STATES.AWAITING_DAY

C22_Witness ==
    /\ DaySelectionFails
    /\ IsWeekdayName(last.md.interactive_data.title)
    /\ questions = {}
    /\ SentMsgs[1].text = "no_questions"
    /\ PostRecord.state = STATES.AWAITING_DAY

---------------------------------------------------------------------------
(* C23 *)

\* C23: when no question is available while a day list selection is handled
\* in AWAITING_DAY, the user is as before: the conversation state, the
\* persisted preferred day and hour and the last question id are unchanged.
C23_NoQuestionNoChange ==
    (/\ Handled /\ PreState = STATES.AWAITING_DAY
     /\ ListSelection
     /\ IsWeekdayName(last.md.interactive_data.title)
     /\ questions = {})
        => /\ PostRecord.state = PreState
           /\ users[Sender].preferred_day = last.pre_users[Sender].preferred_day
           /\ users[Sender].preferred_hour = last.pre_users[Sender].preferred_hour
           /\ users[Sender].last_question_id = last.pre_users[Sender].last_question_id

---------------------------------------------------------------------------
(* C24 *)

\* the question and option numbers of the answer row q_<id>_opt_<n>
AnswerQuestion == Numerals[<<SelectedId[3]>>]
AnswerOption == Numerals[<<SelectedId[9]>>]

\* the selection cannot be graded: the id is not q_<id>_opt_<n>, or the option
\* is outside the question's range, or the question is unknown
AnswerUngradable ==
    \/ SelectedId \notin AnswerIds
    \/ SelectedId \in AnswerIds /\ SelectedId[9] \notin {"1", "2", "3"}
    \/ SelectedId \in AnswerIds /\ SelectedId[3] \notin {"1", "2"}
    \/ questions = {}

\* C24: in AWAITING_QUESTION_RESPONSE a list selection that cannot be parsed
\* or graded makes the handler send an error feedback message, leaves the
\* state AWAITING_QUESTION_RESPONSE and returns a response.
C24_UngradableAnswer ==
    (/\ Handled /\ PreState = STATES.AWAITING_QUESTION_RESPONSE
     /\ ListSelection
     /\ AnswerUngradable)
        => /\ Len(last.sent) = 1 /\ AllToSender
           /\ PostRecord.state = STATES.AWAITING_QUESTION_RESPONSE
           /\ last.ret # NoReturn

---------------------------------------------------------------------------
(* C25 *)

\* C25: a failed outbound send is reported in the webhook's response: the
\* plain {status: "success"} is returned only when every send of the request
\* succeeded.
C25_SendFailureReported ==
    (Handled /\ last.ret = SUCCESS)
        => \A i \in 1..Len(last.sent) : last.sent[i].ok

---------------------------------------------------------------------------
(* C26 *)

\* C26: in AWAITING_QUESTION_RESPONSE the answer k given by list selection is
\* graded as the all-digits text k would be: against the user's last
\* recorded question, with the same result.
C26_SameGrading ==
    (/\ Handled /\ PreState = STATES.AWAITING_QUESTION_RESPONSE
     /\ ListSelection
     /\ SelectedId \in AnswerIds
     /\ Len(last.sent) = 1 /\ SentMsgs[1].text = "feedback_next")
        => SentMsgs[1].args[1] =
              process_user_response(questions, last.pre_users[Sender], <<SelectedId[9]>>)

---------------------------------------------------------------------------
(* C27 *)

\* C27: whenever a user's conversation state is AWAITING_QUESTION_RESPONSE,
\* the id of the question sent to them is stored as their last question id.
C27_PendingQuestionRecorded ==
    \A p \in DOMAIN user_states :
        user_states[p].state = STATES.AWAITING_QUESTION_RESPONSE
            => /\ p \in DOMAIN users
               /\ users[p].last_question_id \in QuestionIds

---------------------------------------------------------------------------
(* C28 *)

\* C28: a tap on the No button, in whatever state, results in exactly one
\* message, the decline acknowledgment, a deactivated user and the state
\* INITIAL; the text branch of the state read at the start does not run.
C28_NoButtonAnyState ==
    (Handled /\ ButtonTap(<<"n","o","_","b","u","t","t","o","n">>))
        => /\ Len(last.sent) = 1 /\ AllToSender
           /\ SentMsgs[1].text = "decline_button"
           /\ ~users[Sender].is_active
           /\ PostRecord = [state |-> STATES.INITIAL, temp_data |-> <<>>]

---------------------------------------------------------------------------
(* C29 *)

\* C29: for every user the temp data holds preferred_day, with a value in
\* 0..6, exactly when the state is AWAITING_HOUR, and is empty in every other
\* state.
C29_StagedDayOnlyInHour ==
    \A p \in DOMAIN user_states :
        IF user_states[p].state = STATES.AWAITING_HOUR
        THEN /\ DOMAIN user_states[p].temp_data = {"preferred_day"}
             /\ user_states[p].temp_data.preferred_day \in 0..6
        ELSE DOMAIN user_states[p].temp_data = {}

C29_Witness ==
    /\ Handled /\ PreState = STATES.AWAITING_DAY
    /\ FreeText /\ Body = <<"7">>
    /\ PostRecord = [state |-> STATES.AWAITING_HOUR, temp_data |-> [preferred_day |-> 6]]

---------------------------------------------------------------------------
(* C30 *)

\* the users a cancellation left deactivated with the state INITIAL, as the
\* step found them
CancelledBefore ==
    {p \in DOMAIN last.pre_users \cap DOMAIN last.pre_states :
        /\ ~last.pre_users[p].is_active
        /\ last.pre_states[p].state = STATES.INITIAL}

\* C30: a step that is not an inbound event of the user (the background
\* sample question, the broadcast) neither moves a cancelled user to
\* AWAITING_QUESTION_RESPONSE nor sends them a question.
C30_NoQuestionAfterCancel ==
    (last.op \in {"sample", "broadcast"})
        => \A p \in CancelledBefore :
              /\ user_states[p] = last.pre_states[p]
              /\ \A i \in 1..Len(last.sent) : last.sent[i].to # p

---------------------------------------------------------------------------
(* C21 *)

\* the user of the overlapping requests
Racer == CHOOSE p \in Phones : TRUE

\* conversation state and active flag of the user in the given tables
Outcome(t) == <<t.user_states[Racer].state, t.users[Racer].is_active>>

\* the tables after the request md is handled on t without interruption
After(t, md) ==
    LET c == whatsapp_webhook_on(ContextOf(t), md, <<TRUE, TRUE>>, 0 - 1)
    IN  Tables(c.users, c.user_states, c.tasks)

\* the outcomes of the two serial orders of the requests in flight
SerialOutcomes ==
    LET a == handlers.run[1].md
        b == handlers.run[2].md
    IN  {Outcome(After(After(handlers.base, a), b)), Outcome(After(After(handlers.base, b), a))}

\* C21: handlers of the same user interleave between reading the state and
\* setting it.  The record in the store is always the one passed to the most
\* recent set_user_state, and a handler that no other handler interrupted
\* leaves the tables as the uninterrupted request does; the overlap is what
\* produces outcomes outside the serial ones.
C21_LastSetWins ==
    /\ handlers.written # <<>>
          => user_states[Racer] = handlers.written[Len(handlers.written)]
    /\ \A h \in Handlers :
          (handlers.run[h].pc = "done" /\ handlers.run[h].alone)
              => Tables(users, user_states, tasks) = After(handlers.run[h].pre, handlers.run[h].md)

\* "sí" and "no", both read in AWAITING_CONFIRMATION, have ended in
\* AWAITING_DAY with the user deactivated, which neither serial order gives
C21_Witness ==
    /\ \A h \in Handlers : handlers.run[h].pc = "done"
    /\ {handlers.run[h].md.body : h \in Handlers} = {<<"s","í">>, <<"n","o">>}
    /\ \A h \in Handlers :
          /\ Racer \in DOMAIN handlers.run[h].pre.user_states
          /\ handlers.run[h].pre.user_states[Racer].state = STATES.AWAITING_CONFIRMATION
    /\ Outcome(Tables(users, user_states, tasks)) = <<STATES.AWAITING_DAY, FALSE>>
    /\ Outcome(Tables(users, user_states, tasks)) \notin SerialOutcomes

---------------------------------------------------------------------------
(* C31 *)

\* the request has completed the subscription flow: a valid hour in
\* AWAITING_HOUR, or a day list selection that delivered its question
FlowCompleted ==
    /\ Handled
    /\ \/ PreState = STATES.AWAITING_HOUR /\ FreeText /\ IsHourText(Body)
       \/ /\ PreState = STATES.AWAITING_DAY /\ ListSelection
          /\ PostRecord.state = STATES.AWAITING_QUESTION_RESPONSE

\* C31: when the subscription flow reaches SUBSCRIBED or
\* AWAITING_QUESTION_RESPONSE the user is active, also a user that declined
\* or sent a stop command before and has gone through the flow again.
C31_ActiveWhenSubscribed ==
    FlowCompleted
        => /\ PostRecord.state \in {STATES.SUBSCRIBED, STATES.AWAITING_QUESTION_RESPONSE}
           /\ users[Sender].is_active

=============================================================================
